---- MODULE Spec2Model ----
(***************************************************************************)
(* TZOOTZ MIDI Latent Mixer: the MIDI parser, the per-track strength       *)
(* computation and the session (node instance) state of                    *)
(* midi_latent_mixer_node.py.                                              *)
(*                                                                         *)
(* Python floats are modelled as exact rationals <<n, d>> (d > 0, lowest   *)
(* terms); every input used below gives values a float holds exactly or    *)
(* compares the same way.                                                  *)
(***************************************************************************)
EXTENDS Integers, Sequences, FiniteSets, TLC

(* ------------------------------ bounds -------------------------------- *)

\* Number of mix_with_midi calls followed in one session.
MaxCalls == 3
\* Longest generated track event sequence, and the latest beat an event of
\* a generated sequence may fall on.
MaxLen == 3
MaxBeat == 2

(* ---------------------------- rationals ------------------------------- *)

RECURSIVE Gcd(_, _)
Gcd(a, b) == IF b = 0 THEN a ELSE Gcd(b, a % b)

Abs(a) == IF a < 0 THEN -a ELSE a

\* n/d in lowest terms with a positive denominator.
Rat(n, d) ==
    LET s == IF d < 0 THEN -1 ELSE 1
        g == Gcd(Abs(n), Abs(d))
    IN  <<(s * n) \div g, (s * d) \div g>>

RInt(n) == <<n, 1>>
RZero == <<0, 1>>
ROne == <<1, 1>>

\* Products cancel crosswise first, so intermediate values stay small; the
\* product of the two reduced fractions is then in lowest terms itself.
RMul(a, b) ==
    LET x == Rat(a[1], b[2])
        y == Rat(b[1], a[2])
    IN  <<x[1] * y[1], x[2] * y[2]>>
RDiv(a, b) == RMul(a, Rat(b[2], b[1]))
RAdd(a, b) ==
    LET g == Gcd(a[2], b[2])
    IN  Rat(a[1] * (b[2] \div g) + b[1] * (a[2] \div g), (a[2] \div g) * b[2])
RSub(a, b) == RAdd(a, <<-b[1], b[2]>>)
RLe(a, b) == a[1] * b[2] <= b[1] * a[2]
RLt(a, b) == a[1] * b[2] < b[1] * a[2]
RMax(a, b) == IF RLe(a, b) THEN b ELSE a

(* ------------------------ program constants --------------------------- *)

\* parse_midi_file: tempo when track 0 holds no set_tempo message.
DefaultTempo == 500000
\* parse_midi_file: bpm = 60000000 / tempo.
MicrosPerMinute == 60000000
\* get_track_strength_at_frame: seconds * 1000000 / tempo * ticks_per_beat.
MicrosPerSecond == 1000000
\* get_track_strength_at_frame: velocity / 127.0.
VelocityScale == 127
\* parse_midi_file: mid.tracks[:4]; mix_with_midi: range(4).
NumChannels == 4
\* mix_with_midi: bpm when no MIDI data is held.
DefaultBpm == 120

TriggerModes == {"Velocity", "Pulse", "Hold", "Toggle"}

(* --------------------------- the parser ------------------------------- *)

\* self.midi_data = None
None == [none |-> TRUE]
\* self._cached_midi_path = None
NoPath == "<None>"

Msg(type, time, note, velocity) ==
    [type |-> type, time |-> time, note |-> note, velocity |-> velocity,
     tempo |-> 0]
Meta(type, time, tempo) ==
    [type |-> type, time |-> time, note |-> 0, velocity |-> 0,
     tempo |-> tempo]

PathA == "a.mid"
PathB == "b.mid"
PathMissing == "missing.mid"
PathCorrupt == "corrupt.mid"

\* a.mid: five tracks, no set_tempo (120 BPM by default), 480 ticks per
\* beat.  Track 1 is the spec's scenario: note 60 on at 0, off at 960.
FileA ==
    [exists |-> TRUE, wellformed |-> TRUE, ticks_per_beat |-> 480,
     tracks |-> <<
        <<Meta("track_name", 0, 0),
          Msg("note_on", 0, 60, 100), Msg("note_off", 960, 60, 0)>>,
        <<Msg("note_on", 0, 36, 127)>>,
        <<Msg("control_change", 0, 0, 0)>>,
        <<Msg("note_on", 240, 62, 64), Msg("note_on", 240, 64, 127),
          Msg("note_on", 480, 62, 0)>>,
        <<Msg("note_on", 0, 70, 100)>> >>]

\* b.mid: one track, 60 BPM, 96 ticks per beat, note 60 on from tick 96.
FileB ==
    [exists |-> TRUE, wellformed |-> TRUE, ticks_per_beat |-> 96,
     tracks |-> <<
        <<Meta("set_tempo", 0, 1000000), Meta("set_tempo", 0, 250000),
          Msg("note_on", 96, 60, 100)>> >>]

\* What the file system holds at each path the session is given.
FileSystem(path) ==
    CASE path = PathA -> FileA
      [] path = PathB -> FileB
      [] path = PathCorrupt ->
            [exists |-> TRUE, wellformed |-> FALSE, ticks_per_beat |-> 0,
             tracks |-> << >>]
      [] OTHER ->
            [exists |-> FALSE, wellformed |-> FALSE, ticks_per_beat |-> 0,
             tracks |-> << >>]

\* for msg in mid.tracks[0]: if msg.type == 'set_tempo': tempo = msg.tempo; break
RECURSIVE FirstTempo(_, _)
FirstTempo(track, k) ==
    IF k > Len(track) THEN DefaultTempo
    ELSE IF track[k].type = "set_tempo" THEN track[k].tempo
    ELSE FirstTempo(track, k + 1)

\* for msg in track: current_time += msg.time; keep note_on / note_off.
RECURSIVE TrackEvents(_, _, _)
TrackEvents(track, k, current_time) ==
    IF k > Len(track) THEN << >>
    ELSE LET t == current_time + track[k].time
         IN  IF track[k].type \in {"note_on", "note_off"}
             THEN <<[time |-> t, type |-> track[k].type,
                     note |-> track[k].note,
                     velocity |-> track[k].velocity]>>
                  \o TrackEvents(track, k + 1, t)
             ELSE TrackEvents(track, k + 1, t)

\* mid.tracks[:4]
FirstTracks(tracks) ==
    SubSeq(tracks, 1, IF Len(tracks) < NumChannels THEN Len(tracks)
                      ELSE NumChannels)

\* parse_midi_file: None when mido is absent, the path is empty or missing,
\* or anything in the try block raises (a malformed file; mid.tracks[0] of
\* a file with no tracks).
parse_midi_file(available, midi_path) ==
    LET f == FileSystem(midi_path)
    IN  IF ~available THEN None
        ELSE IF midi_path = "" \/ ~f.exists THEN None
        ELSE IF ~f.wellformed \/ Len(f.tracks) = 0 THEN None
        ELSE LET tempo == FirstTempo(f.tracks[1], 1)
                 first == FirstTracks(f.tracks)
             IN  [tracks |-> [i \in 1..Len(first) |->
                                 TrackEvents(first[i], 1, 0)],
                  tempo |-> tempo,
                  ticks_per_beat |-> f.ticks_per_beat,
                  bpm |-> Rat(MicrosPerMinute, tempo)]

(* ------------------- get_track_strength_at_frame ---------------------- *)

\* seconds = frame / fps; midi_time = seconds * 1000000 / tempo * ticks_per_beat
MidiTime(frame, fps, tempo, ticks_per_beat) ==
    RMul(RMul(Rat(frame, fps), Rat(MicrosPerSecond, tempo)),
         RInt(ticks_per_beat))

\* note_off_time = None
NoOff == -1

\* for j in range(i+1, len(track_data)): the time of the first event on
\* event's note that is a note_off or has velocity 0, else None.
RECURSIVE NoteOffTime(_, _, _)
NoteOffTime(track_data, note, j) ==
    IF j > Len(track_data) THEN NoOff
    ELSE IF track_data[j].note = note
            /\ (track_data[j].type = "note_off" \/ track_data[j].velocity = 0)
         THEN track_data[j].time
    ELSE NoteOffTime(track_data, note, j + 1)

\* Mutant: the note still counts as active on the tick of its note-off.
IsActive_OffInclusive(track_data, i, midi_time) ==
    /\ RLe(RInt(track_data[i].time), midi_time)
    /\ track_data[i].type = "note_on"
    /\ track_data[i].velocity > 0
    /\ LET note_off_time == NoteOffTime(track_data, track_data[i].note, i + 1)
       IN  note_off_time = NoOff \/ RLe(midi_time, RInt(note_off_time))

\* The test that appends event i to active_notes.
IsActive(track_data, i, midi_time) ==
    /\ RLe(RInt(track_data[i].time), midi_time)
    /\ track_data[i].type = "note_on"
    /\ track_data[i].velocity > 0
    /\ LET note_off_time == NoteOffTime(track_data, track_data[i].note, i + 1)
       IN  note_off_time = NoOff \/ RLt(midi_time, RInt(note_off_time))

\* active_notes, as the indices into track_data of its events, in the
\* order the loop appends them.
RECURSIVE ActiveFrom(_, _, _)
ActiveFrom(track_data, i, midi_time) ==
    IF i > Len(track_data) THEN << >>
    ELSE (IF IsActive(track_data, i, midi_time) THEN <<i>> ELSE << >>)
         \o ActiveFrom(track_data, i + 1, midi_time)

ActiveNotes(track_data, midi_time) == ActiveFrom(track_data, 1, midi_time)

\* np.mean([n['velocity'] / 127.0 for n in active_notes])
RECURSIVE VelocitySum(_, _, _)
VelocitySum(track_data, active_notes, k) ==
    IF k > Len(active_notes) THEN RZero
    ELSE RAdd(Rat(track_data[active_notes[k]].velocity, VelocityScale),
              VelocitySum(track_data, active_notes, k + 1))

VelocityStrength(track_data, active_notes) ==
    RDiv(VelocitySum(track_data, active_notes, 1), RInt(Len(active_notes)))

\* max(active_notes, key=lambda x: x['time']): the first of the latest.
RECURSIVE MostRecent(_, _, _, _)
MostRecent(track_data, active_notes, k, best) ==
    IF k > Len(active_notes) THEN best
    ELSE MostRecent(track_data, active_notes, k + 1,
                    IF track_data[active_notes[k]].time > track_data[best].time
                    THEN active_notes[k] ELSE best)

\* Mutant: the decay is not clamped at 0.
PulseStrength_NoClamp(track_data, active_notes, midi_time, ticks_per_beat, decay_rate) ==
    LET most_recent ==
            track_data[MostRecent(track_data, active_notes, 2, active_notes[1])]
        time_since == RDiv(RSub(midi_time, RInt(most_recent.time)),
                           RInt(ticks_per_beat))
        decay == RSub(ROne, RMul(time_since, decay_rate))
    IN  RMul(Rat(most_recent.velocity, VelocityScale), decay)

PulseStrength(track_data, active_notes, midi_time, ticks_per_beat, decay_rate) ==
    LET most_recent ==
            track_data[MostRecent(track_data, active_notes, 2, active_notes[1])]
        time_since == RDiv(RSub(midi_time, RInt(most_recent.time)),
                           RInt(ticks_per_beat))
        decay == RMax(RZero, RSub(ROne, RMul(time_since, decay_rate)))
    IN  RMul(Rat(most_recent.velocity, VelocityScale), decay)

\* sum(1 for e in track_data if e['time'] <= midi_time and
\*     e['type'] == 'note_on' and e['velocity'] > 0)
NoteOnCount(track_data, midi_time) ==
    Cardinality({i \in 1..Len(track_data) :
                    /\ RLe(RInt(track_data[i].time), midi_time)
                    /\ track_data[i].type = "note_on"
                    /\ track_data[i].velocity > 0})

ToggleStrength(track_data, midi_time) ==
    IF NoteOnCount(track_data, midi_time) % 2 = 1 THEN ROne ELSE RZero

\* Mutant: Hold falls into the Velocity branch.
ModeStrength_HoldAsVelocity(track_data, active_notes, midi_time, trigger_mode, ticks_per_beat, decay_rate) ==
    CASE trigger_mode \in {"Velocity", "Hold"} ->
            VelocityStrength(track_data, active_notes)
      [] trigger_mode = "Pulse" ->
            PulseStrength(track_data, active_notes, midi_time,
                          ticks_per_beat, decay_rate)
      [] trigger_mode = "Toggle" -> ToggleStrength(track_data, midi_time)
      [] OTHER -> RZero

\* The mode branches, reached only with a non-empty active_notes.
ModeStrength(track_data, active_notes, midi_time, trigger_mode, ticks_per_beat, decay_rate) ==
    CASE trigger_mode = "Velocity" -> VelocityStrength(track_data, active_notes)
      [] trigger_mode = "Pulse" ->
            PulseStrength(track_data, active_notes, midi_time,
                          ticks_per_beat, decay_rate)
      [] trigger_mode = "Hold" ->
            IF Len(active_notes) > 0 THEN ROne ELSE RZero
      [] trigger_mode = "Toggle" -> ToggleStrength(track_data, midi_time)
      [] OTHER -> RZero

get_track_strength_at_frame(track_data, frame, fps, trigger_mode, ticks_per_beat, tempo, decay_rate) ==
    IF Len(track_data) = 0 THEN RZero
    ELSE LET midi_time == MidiTime(frame, fps, tempo, ticks_per_beat)
             active_notes == ActiveNotes(track_data, midi_time)
         IN  IF Len(active_notes) = 0 THEN RZero
             ELSE ModeStrength(track_data, active_notes, midi_time,
                               trigger_mode, ticks_per_beat, decay_rate)

(* ----------------------------- the state ------------------------------ *)

VARIABLES
    MIDI_AVAILABLE,     \* module level: whether `import mido` succeeded
    midi_data,          \* self.midi_data
    cached_midi_path,   \* self._cached_midi_path
    current_frame,      \* self.current_frame
    track_states,       \* self.track_states
    calls,              \* history: number of mix_with_midi calls so far
    parse_calls,        \* history: parse_midi_file invocations per path
    last,               \* history: the latest mix_with_midi call
    prev,               \* history: the call before it
    fn,                 \* direct use of get_track_strength_at_frame: inputs
    call                \* ... and its latest evaluation

session == <<MIDI_AVAILABLE, midi_data, cached_midi_path, current_frame,
             track_states, calls, parse_calls, last, prev>>
vars == <<MIDI_AVAILABLE, midi_data, cached_midi_path, current_frame,
          track_states, calls, parse_calls, last, prev, fn, call>>

(* ------------------------- inputs of a session ------------------------ *)

\* kwargs.get('midi_path', ''): an absent midi_path is the empty string.
FilePaths == {PathA, PathB, PathMissing, PathCorrupt}
MidiPaths == {""} \cup FilePaths
\* frame_number (0..9999) and fps (1..120).
Frames == {15, 60}
FpsValues == {30}
\* mix_strength (0.0..2.0) and decay_rate (0.1..10.0), in steps of 0.1.
MixStrengths == {Rat(1, 2), Rat(2, 1)}
\* <<trigger_mode, decay_rate>>: decay_rate is read by Pulse alone, and the
\* other modes are called with its default.
ModeSettings ==
    {m \in TriggerModes \X {Rat(1, 10), Rat(2, 1)} :
        m[1] # "Pulse" => m[2] = Rat(2, 1)}

NoCall == [called |-> FALSE, midi_path |-> "", frame_number |-> 0,
           parses |-> 0, cached_before |-> NoPath, bpm |-> RZero]

\* What is kept of a call once the next call has been made.
Earlier(c) == [called |-> c.called, midi_path |-> c.midi_path,
               parses |-> c.parses, cached_before |-> c.cached_before]

\* __init__
SessionInit ==
    /\ midi_data = None
    /\ current_frame = 0
    /\ track_states = [i \in 1..NumChannels |-> RZero]
    /\ cached_midi_path = NoPath
    /\ calls = 0
    /\ parse_calls = [p \in FilePaths |-> 0]
    /\ last = NoCall
    /\ prev = Earlier(NoCall)

FnIdle == [track_data |-> << >>, ticks_per_beat |-> 1, tempo |-> 1, fps |-> 1]
CallIdle == [done |-> FALSE, frame |-> 0, trigger_mode |-> "Hold",
             decay_rate |-> ROne, midi_time |-> RZero,
             active_notes |-> << >>, strength |-> RZero]

Init ==
    /\ MIDI_AVAILABLE \in BOOLEAN
    /\ SessionInit
    /\ fn = FnIdle
    /\ call = CallIdle

(* ---------------------------- mix_with_midi --------------------------- *)

\* Mutant: parses on the first load only, never when the path changes.
MustParse_FirstLoadOnly(cached, midi_path) ==
    midi_path # "" /\ cached = NoPath

\* Mutant: no comparison with the cached path, every call parses.
MustParse_EveryCall(cached, midi_path) == midi_path # ""

\* Variant that also re-parses on an empty path that differs from the cache.
MustParse_EmptyPathToo(cached, midi_path) == cached # midi_path

\* if midi_path and (self._cached_midi_path != midi_path)
MustParse(cached, midi_path) == midi_path # "" /\ cached # midi_path

\* self.track_states[i] = strength * mix_strength, for i < len(tracks);
\* the other slots, and every slot when midi_data is None, are not written.
NewTrackStates(data, states, frame_number, fps, trigger_mode, mix_strength, decay_rate) ==
    IF data = None THEN states
    ELSE [i \in 1..NumChannels |->
            IF i <= Len(data.tracks)
            THEN RMul(get_track_strength_at_frame(
                          data.tracks[i], frame_number, fps, trigger_mode,
                          data.ticks_per_beat, data.tempo, decay_rate),
                      mix_strength)
            ELSE states[i]]

\* bpm = self.midi_data['bpm'] if self.midi_data else 120.0
ReportedBpm(data) == IF data = None THEN RInt(DefaultBpm) ELSE data.bpm

mix_with_midi(midi_path, frame_number, fps, trigger_mode, mix_strength, decay_rate) ==
    /\ calls < MaxCalls
    /\ IF MustParse(cached_midi_path, midi_path)
       THEN /\ midi_data' = parse_midi_file(MIDI_AVAILABLE, midi_path)
            /\ cached_midi_path' = midi_path
            /\ current_frame' = frame_number
            /\ parse_calls' = [parse_calls EXCEPT ![midi_path] = @ + 1]
       ELSE /\ current_frame' = frame_number
            /\ UNCHANGED <<midi_data, cached_midi_path, parse_calls>>
    /\ track_states' = NewTrackStates(midi_data', track_states, frame_number,
                                      fps, trigger_mode, mix_strength,
                                      decay_rate)
    /\ calls' = calls + 1
    /\ last' = [called |-> TRUE, midi_path |-> midi_path,
                frame_number |-> frame_number,
                parses |-> Cardinality({p \in FilePaths :
                                parse_calls'[p] # parse_calls[p]}),
                cached_before |-> cached_midi_path,
                bpm |-> ReportedBpm(midi_data')]
    /\ prev' = Earlier(last)
    /\ UNCHANGED <<MIDI_AVAILABLE, fn, call>>

Next ==
    \E midi_path \in MidiPaths, frame_number \in Frames, fps \in FpsValues,
       m \in ModeSettings, mix_strength \in MixStrengths :
        mix_with_midi(midi_path, frame_number, fps, m[1], mix_strength, m[2])

Spec == Init /\ [][Next]_vars

(* ------------- get_track_strength_at_frame, used directly ------------- *)

\* One timing: mido's default resolution and tempo, the node's default fps.
\* A beat is 480 ticks and 15 frames; a frame is 32 ticks.
Timings == {[ticks_per_beat |-> 480, tempo |-> DefaultTempo, fps |-> 30]}

\* <<type, note, velocity>> of the events of a generated track.
EventKinds == {<<"note_on", 60, 100>>, <<"note_on", 60, 0>>,
               <<"note_off", 60, 0>>, <<"note_on", 61, 127>>}

GenEvents(ticks_per_beat) ==
    {[time |-> b * ticks_per_beat, type |-> k[1], note |-> k[2],
      velocity |-> k[3]] : b \in 0..MaxBeat, k \in EventKinds}

\* Event sequences as parse_midi_file builds them: absolute times that
\* never decrease (a running sum of non-negative deltas).
TrackSeqs(ticks_per_beat) ==
    {s \in UNION {[1..n -> GenEvents(ticks_per_beat)] : n \in 0..MaxLen} :
        \A i \in 1..(Len(s) - 1) : s[i].time <= s[i + 1].time}

\* Frames on, between and after the beats.
FnFrames == {0, 7, 15, 30, 60}

InitFn ==
    /\ MIDI_AVAILABLE = TRUE
    /\ SessionInit
    /\ \E t \in Timings :
         fn \in {[track_data |-> s, ticks_per_beat |-> t.ticks_per_beat,
                  tempo |-> t.tempo, fps |-> t.fps] :
                     s \in TrackSeqs(t.ticks_per_beat)}
    /\ call = CallIdle

FnTick(frame) == MidiTime(frame, fn.fps, fn.tempo, fn.ticks_per_beat)

Evaluation(frame, trigger_mode, decay_rate) ==
    [done |-> TRUE, frame |-> frame, trigger_mode |-> trigger_mode,
     decay_rate |-> decay_rate,
     midi_time |-> FnTick(frame),
     active_notes |-> IF Len(fn.track_data) = 0 THEN << >>
                      ELSE ActiveNotes(fn.track_data, FnTick(frame)),
     strength |-> get_track_strength_at_frame(
                      fn.track_data, frame, fn.fps, trigger_mode,
                      fn.ticks_per_beat, fn.tempo, decay_rate)]

\* The first call on the track, at the first frame that is rendered.
Evaluate(frame, trigger_mode, decay_rate) ==
    /\ ~call.done
    /\ \A g \in FnFrames : frame <= g
    /\ call' = Evaluation(frame, trigger_mode, decay_rate)
    /\ UNCHANGED <<session, fn>>

\* The next call on the same track with the same settings, at the next
\* later frame that is rendered.
Advance(frame) ==
    /\ call.done
    /\ frame > call.frame
    /\ \A g \in FnFrames : g > call.frame => frame <= g
    /\ call' = Evaluation(frame, call.trigger_mode, call.decay_rate)
    /\ UNCHANGED <<session, fn>>

NextFn ==
    \/ \E frame \in FnFrames, m \in ModeSettings : Evaluate(frame, m[1], m[2])
    \/ \E frame \in FnFrames : Advance(frame)

SpecFn == InitFn /\ [][NextFn]_vars

(* ====================================================================== *)
(* Properties of the session (under Spec)                                 *)
(* ====================================================================== *)

AllZero(states) == \A i \in 1..NumChannels : states[i] = RZero

C2_EmptyPathDisablesMidi ==
    (last.called /\ last.midi_path = "")
        => AllZero(track_states) /\ last.bpm = RInt(DefaultBpm)

\* C3: a call with a non-empty path whose parse fails returns four zero
\* track strengths and 120 BPM, whatever the calls before it did.
C3_FailedParseGivesZeros ==
    (last.called /\ last.midi_path # "" /\ last.parses = 1
        /\ midi_data = None)
        => AllZero(track_states) /\ last.bpm = RInt(DefaultBpm)

\* C4: after a call, every slot that has no track in the cached parsed MIDI
\* holds strength 0.
C4_SlotsWithoutTrackAreZero ==
    (last.called /\ midi_data # None)
        => \A i \in 1..NumChannels :
              i > Len(midi_data.tracks) => track_states[i] = RZero

\* C6, as stated: every stored track strength lies in [0, 1].
C6_StrengthsWithinUnit ==
    \A i \in 1..NumChannels :
        RLe(RZero, track_states[i]) /\ RLe(track_states[i], ROne)

\* C6, amended: every stored track strength lies in [0, 2], the raw strength
\* in [0, 1] times mix_strength in [0, 2].
C6_StrengthsWithinMixRange ==
    \A i \in 1..NumChannels :
        RLe(RZero, track_states[i]) /\ RLe(track_states[i], RInt(2))

\* C6 witness: a slot above 1, at the upper end of the range.
C6_Witness ==
    last.called /\ \E i \in 1..NumChannels : track_states[i] = RInt(2)

\* C8, as stated: over the session the parser is invoked at most once for
\* each distinct path, and only on a call whose path differs from the
\* cached path.
C8_OneParsePerPath ==
    /\ \A p \in FilePaths : parse_calls[p] <= 1
    /\ (last.called /\ last.parses > 0
            => last.midi_path # last.cached_before)

\* C8, amended: the parser is invoked only on a call whose path is non-empty
\* and differs from the cached path, once on that call; the cache holds one
\* entry, so the total is bounded by the number of calls, not by the number
\* of distinct paths.
C8_ParseOnlyOnPathChange ==
    /\ last.called =>
          /\ last.parses <= 1
          /\ last.parses = 1
                => last.midi_path # "" /\ last.midi_path # last.cached_before
    /\ \A p \in FilePaths : parse_calls[p] <= calls

\* C8 witness: a path parsed a second time after another path replaced it.
C8_Witness ==
    /\ parse_calls[PathA] = 2
    /\ last.called /\ last.midi_path = PathA /\ last.parses = 1
    /\ prev.called /\ prev.midi_path = PathB

\* C11: frame condition of mix_with_midi. After every call current_frame
\* equals the frame_number passed to it; a call whose path is empty or equal
\* to the cached path leaves midi_data and the cached path unchanged; the
\* cached path is only ever replaced by the non-empty path of the call,
\* together with the parse result (possibly None) for that path, and
\* midi_data never changes without the cached path being replaced.
C11_CacheFrameCondition ==
    [][calls' = calls + 1 =>
          /\ current_frame' = last'.frame_number
          /\ (last'.midi_path = "" \/ last'.midi_path = cached_midi_path)
                => UNCHANGED <<midi_data, cached_midi_path>>
          /\ cached_midi_path' # cached_midi_path
                => /\ cached_midi_path' # ""
                   /\ cached_midi_path' = last'.midi_path
                   /\ midi_data' = parse_midi_file(MIDI_AVAILABLE,
                                                   last'.midi_path)
          /\ midi_data' # midi_data
                => cached_midi_path' # cached_midi_path]_vars

\* C11 witness: an empty-path call at another frame after the call that
\* loaded a.mid; the cache still holds a.mid and its data, and
\* current_frame is the frame of the empty-path call.
C11_Witness ==
    /\ prev.called /\ prev.midi_path = PathA /\ prev.cached_before # PathA
    /\ last.called /\ last.midi_path = "" /\ last.frame_number = 60
    /\ last.cached_before = PathA
    /\ cached_midi_path = PathA /\ midi_data # None
    /\ current_frame = 60

(* ====================================================================== *)
(* Properties of get_track_strength_at_frame (under SpecFn)               *)
(* ====================================================================== *)

\* The notions the statements below are phrased in, written from the
\* statements and not from the loops above.

\* Event i is a NoteOn with velocity > 0.
IsTrigger(seq, i) == seq[i].type = "note_on" /\ seq[i].velocity > 0

\* The later events, in stored order, that end a note on event i's number.
Terminators(seq, i) ==
    {j \in (i + 1)..Len(seq) :
        /\ seq[j].note = seq[i].note
        /\ (seq[j].type = "note_off" \/ seq[j].velocity = 0)}

FirstTerminator(seq, i) ==
    CHOOSE j \in Terminators(seq, i) : \A k \in Terminators(seq, i) : j <= k

\* Event i has begun by the tick and its first terminator, if any, lies
\* strictly after the tick.
Sounding(seq, i, tick) ==
    /\ IsTrigger(seq, i)
    /\ RLe(RInt(seq[i].time), tick)
    /\ \/ Terminators(seq, i) = {}
       \/ RLt(tick, RInt(seq[FirstTerminator(seq, i)].time))

\* Event i of the track is in the active set of the latest evaluation.
InActiveSet(i) ==
    \E k \in 1..Len(call.active_notes) : call.active_notes[k] = i

\* Triggers at or before the tick.
TriggersUpTo(seq, tick) ==
    {i \in 1..Len(seq) : IsTrigger(seq, i) /\ RLe(RInt(seq[i].time), tick)}

\* C5: in Toggle mode the raw strength is 1 when the number of NoteOn
\* events with velocity > 0 and time <= tick in the whole sequence is odd,
\* 0 when it is even, whether or not a note is active at the tick.
C5_ToggleIsNoteOnParity ==
    (call.done /\ call.trigger_mode = "Toggle") =>
        call.strength =
            IF Cardinality(TriggersUpTo(fn.track_data, call.midi_time)) % 2 = 1
            THEN ROne ELSE RZero

\* C7: a NoteOn event (velocity > 0, time <= tick) is in the active set iff
\* the first later event in stored order on its note number that is a
\* NoteOff or has velocity 0 does not exist or has a time strictly greater
\* than the tick; nothing else is in the active set.  Hence a note is
\* active from its NoteOn up to its NoteOff, inactive from the tick of the
\* NoteOff on, and an unmatched NoteOn is active at every later tick.
C7_ActiveIffNotYetTerminated ==
    call.done =>
        LET seq == fn.track_data
            tick == call.midi_time
        IN  \A i \in 1..Len(seq) :
              /\ InActiveSet(i) <=> Sounding(seq, i, tick)
              /\ (IsTrigger(seq, i) /\ RLe(RInt(seq[i].time), tick)) =>
                    IF Terminators(seq, i) = {} THEN InActiveSet(i)
                    ELSE LET off == RInt(seq[FirstTerminator(seq, i)].time)
                         IN  /\ RLt(tick, off) => InActiveSet(i)
                             /\ RLe(off, tick) => ~InActiveSet(i)

\* C7 witness: a note with a NoteOff, evaluated strictly between the two,
\* is in the active set.
C7_Witness ==
    /\ call.done
    /\ \E i \in 1..Len(fn.track_data) :
          /\ InActiveSet(i)
          /\ Terminators(fn.track_data, i) # {}
          /\ fn.track_data[FirstTerminator(fn.track_data, i)].type = "note_off"
          /\ RLt(RInt(fn.track_data[i].time), call.midi_time)

\* C9, first half: from one Pulse evaluation to the next, with the same
\* decay_rate and track and no NoteOn (velocity > 0) in between, the raw
\* strength does not increase.
C9_PulseNeverRises ==
    [][(/\ call.done /\ call'.done
        /\ call.trigger_mode = "Pulse" /\ call'.trigger_mode = "Pulse"
        /\ call'.decay_rate = call.decay_rate
        /\ fn' = fn
        /\ call'.frame > call.frame
        /\ TriggersUpTo(fn.track_data, call'.midi_time)
              = TriggersUpTo(fn.track_data, call.midi_time))
            => RLe(call'.strength, call.strength)]_vars

\* C9, second half: the raw strength is 0 at every tick with
\* (tick - time of the most recent trigger) / ticks_per_beat * decay_rate >= 1.
C9_PulseZeroWhenDecayed ==
    (call.done /\ call.trigger_mode = "Pulse") =>
        LET seq == fn.track_data
            tick == call.midi_time
        IN  \A i \in TriggersUpTo(seq, tick) :
              (/\ \A k \in TriggersUpTo(seq, tick) : seq[k].time <= seq[i].time
               /\ RLe(ROne,
                      RMul(RDiv(RSub(tick, RInt(seq[i].time)),
                                RInt(fn.ticks_per_beat)),
                           call.decay_rate)))
                  => call.strength = RZero

\* C9: in Pulse mode, between consecutive triggers the raw strength never
\* increases as the tick advances, and it is 0 once the beats elapsed since
\* the most recent trigger times decay_rate reach 1; also when notes overlap
\* and the most recently triggered one ends before an older one.
C9_PulseDecays == C9_PulseNeverRises /\ []C9_PulseZeroWhenDecayed

\* The spec's scenario: note 60 on at tick 0 with velocity 100, off at 960.
Scenario ==
    <<[time |-> 0, type |-> "note_on", note |-> 60, velocity |-> 100],
      [time |-> 960, type |-> "note_off", note |-> 60, velocity |-> 0]>>

InScenario ==
    /\ fn.track_data = Scenario
    /\ fn.ticks_per_beat = 480 /\ fn.tempo = 500000 /\ fn.fps = 30

\* C10: in Hold mode the raw strength is exactly 1 when at least one note
\* is active at tick frame / fps * 1000000 / tempo * ticks_per_beat and
\* exactly 0 otherwise; in the scenario frame 15 is tick 480 and gives 1,
\* frame 60 is tick 1920 and gives 0.
C10_HoldIsBinary ==
    (call.done /\ call.trigger_mode = "Hold") =>
        LET seq == fn.track_data
            tick == call.midi_time
        IN  /\ RMul(tick, RInt(fn.fps))
                  = RMul(RMul(RInt(call.frame), Rat(MicrosPerSecond, fn.tempo)),
                         RInt(fn.ticks_per_beat))
            /\ call.strength =
                  IF \E i \in 1..Len(seq) : Sounding(seq, i, tick)
                  THEN ROne ELSE RZero
            /\ (InScenario /\ call.frame = 15)
                  => tick = RInt(480) /\ call.strength = ROne
            /\ (InScenario /\ call.frame = 60)
                  => tick = RInt(1920) /\ call.strength = RZero

\* C10 witness: the scenario at frame 15, where Hold gives 1.
C10_Witness ==
    /\ call.done /\ call.trigger_mode = "Hold"
    /\ InScenario /\ call.frame = 15
    /\ call.strength = ROne

====
